---- MODULE Spec2Model ----
(***************************************************************************)
(* summaly: the bounded retrieval layer (getResponse and its callers       *)
(* scpaping, get and head) and the charset resolution of scpaping.         *)
(*                                                                         *)
(* One retrieval call is followed from its start to its end.  The server   *)
(* (status, headers, body chunks, stalls, failures) and the two timers     *)
(* are the environment: they act in any order the event loop allows.       *)
(***************************************************************************)
EXTENDS Integers, Sequences, FiniteSets

(***************************************************************************)
(* Bounds of the model.                                                    *)
(***************************************************************************)
\* largest contentLengthLimit option tried (0..MaxLimit, or none)
MaxLimit == 1
\* chunks keep arriving only while fewer than MaxBytes bytes were transferred
MaxBytes == 2

(***************************************************************************)
(* Values.                                                                 *)
(***************************************************************************)
\* null / undefined of a string-valued expression
NULL == "<null>"
\* an optional number that was not given
Undefined == 0 - 1

DEFAULT_MAX_RESPONSE_SIZE == 10 * 1024 * 1024

\* JavaScript truthiness of a string | null
Truthy(s) == s # NULL /\ s # ""

\* String.prototype.toLowerCase on the strings of the model
ToLowerCase(s) ==
    CASE s = "Content-Type" -> "content-type"
      [] s = "Shift_JIS" -> "shift_jis"
      [] OTHER -> s

\* charset labels a document or a header may carry
RecognizedLabels == {"utf-8", "euc-jp", "Shift_JIS"}
Labels == RecognizedLabels \cup {"bogus", "", " "}

(***************************************************************************)
(* Content-Type values (the header, or the content attribute of a meta     *)
(* element): the text before the parameters and the charset parameter.     *)
(* "text/html/" stands for a value MIMEType.parse rejects.                 *)
(***************************************************************************)
ContentTypeValue(e, c) == [essence |-> e, charset |-> c]
NoContentType == ContentTypeValue(NULL, NULL)

HeaderContentTypes ==
    {NoContentType,
     ContentTypeValue("text/plain", "utf-8"),
     ContentTypeValue("application/xhtml+xml", NULL),
     ContentTypeValue("text/html/", "euc-jp")}
    \cup {ContentTypeValue("text/html", c) : c \in Labels \cup {NULL}}

\* MIMEType.parse(value) returns null for a value that is no MIME type
MIMETypeParses(v) == v.essence \in {"text/plain", "application/xhtml+xml", "text/html"}

getCharset(value) ==
    IF value = NoContentType THEN NULL
    ELSE IF ~MIMETypeParses(value) THEN NULL
    ELSE value.charset

\* contentType?.match(/^(text\/html|application\/xhtml\+xml)/)
TypeFilterMatches(contentType) ==
    /\ contentType # NoContentType
    /\ contentType.essence \in {"text/html", "text/html/", "application/xhtml+xml"}

(***************************************************************************)
(* Content-Length header values: absent, the empty string, a string that   *)
(* is no number, or the decimal text of n.                                 *)
(***************************************************************************)
NoContentLength == [k |-> "absent", n |-> 0]
ContentLengths ==
    {NoContentLength, [k |-> "empty", n |-> 0], [k |-> "nan", n |-> 0]}
    \cup {[k |-> "num", n |-> i] : i \in 0..(MaxLimit + 1)}
    \cup {[k |-> "num", n |-> DEFAULT_MAX_RESPONSE_SIZE + i] : i \in 0..1}

\* if (contentLength): a header that is present and not the empty string
ContentLengthTruthy(cl) == cl.k \in {"nan", "num"}

\* Number(contentLength) > maxSize; NaN compares false
DeclaredSizeExceeds_GE(cl, maxSize) == cl.k = "num" /\ cl.n >= maxSize
DeclaredSizeExceeds(cl, maxSize) == cl.k = "num" /\ cl.n > maxSize

Statuses == {200, 299, 300, 404}
\* Response.ok
Ok(status) == status >= 200 /\ status <= 299

\* Response.statusText: the reason phrase the server sent, possibly empty
StatusTexts(status) ==
    IF status = 200 THEN {"OK"}
    ELSE IF status = 300 THEN {"Multiple Choices"}
    ELSE IF status = 404 THEN {"Not Found", ""}
    ELSE {""}

NoResponse ==
    [status |-> 0, statusText |-> "", contentType |-> NoContentType,
     contentLength |-> NoContentLength, hasBody |-> FALSE]
Responses ==
    UNION {[status : {s}, statusText : StatusTexts(s),
            contentType : HeaderContentTypes,
            contentLength : ContentLengths, hasBody : BOOLEAN] : s \in Statuses}

(***************************************************************************)
(* The state of one call.                                                  *)
(***************************************************************************)
VARIABLES
    pc,                      \* idle, fetch (awaiting fetch), body, done, failed
    args,                    \* GotOptions of the call
    timeoutHandle,           \* response timer: unset, armed, fired, cleared
    operationTimeoutHandle,  \* operation timer
    aborted,                 \* controller.signal.aborted
    res,                     \* the response, NoResponse before the headers
    outcome,                 \* of getResponse: pending, ok, or the error thrown
    transferred,             \* bytes counted by the size guard
    delivered,               \* bytes the size guard enqueued downstream
    bodyError,               \* error of the body stream, none when there is none
    rewriterStarted,         \* rewriter.transform(response.body) was called
    pickedCharset,           \* PrioritizedReference<string | null>
    charset,                 \* the codec scpaping decodes with, NULL before
    detection,               \* what detectEncoding returned, or that it was not called
    metaCharsetSeen,         \* last non-empty charset attribute of a meta element
    httpEquivCharsetSeen,    \* last non-empty charset of a meta http-equiv content-type
    nonBlankSeen,            \* the same two hints, white-space-only values left out
    thrown                   \* status code and text given to the StatusError thrown

(***************************************************************************)
(* State of the other specifications of this module: assign applied to any *)
(* slot, the rewriter at work on a document, two calls side by side, and   *)
(* summaly with its default options.  It stays idle under Spec.            *)
(***************************************************************************)
VARIABLES
    target,                  \* assign: the slot written to
    assignCall,              \* assign: the slot before the last call, and its arguments
    tokens,                  \* rewriter: the tokens of the document read so far
    openElements,            \* rewriter: what the handler decided for each open element
    output,                  \* rewriter: the positions of the tokens written out
    calls,                   \* two calls: the state of each
    summalyDefaultOptions,   \* summaly: the exported default options object
    opts,                    \* summaly: the options in effect for the last call
    options,                 \* summaly: the options passed to the last call
    nCalls,                  \* summaly: calls made so far
    summalyPc,               \* summaly: idle, head (awaiting head), summarize
    actualUrl,               \* summaly: the URL the summarizer is given
    headOutcome,             \* summaly: whether head was requested, and how it settled
    summarizerUrl            \* summaly: the URL a summarizer was invoked with, or NULL

\* the state of the call, the charset slot apart
fetchVars ==
    <<pc, args, timeoutHandle, operationTimeoutHandle, aborted, res, outcome,
      transferred, delivered, bodyError, rewriterStarted, charset,
      detection, metaCharsetSeen, httpEquivCharsetSeen, nonBlankSeen, thrown>>
callVars == <<fetchVars, pickedCharset>>
assignVars == <<target, assignCall>>
stripVars == <<tokens, openElements, output>>
summalyVars ==
    <<summalyDefaultOptions, opts, options, nCalls, summalyPc, actualUrl,
      headOutcome, summarizerUrl>>
auxVars == <<assignVars, stripVars, calls, summalyVars>>
vars == <<callVars, auxVars>>

NoArgs ==
    [kind |-> "none", typeFilter |-> FALSE,
     contentLengthLimit |-> Undefined, contentLengthRequired |-> FALSE]

NotCalled == "<not called>"

NoError == [statusCode |-> 0, statusMessage |-> NULL]
NoHints == [meta |-> NULL, httpEquiv |-> NULL]

CallInit ==
    /\ pc = "idle"
    /\ args = NoArgs
    /\ timeoutHandle = "unset"
    /\ operationTimeoutHandle = "unset"
    /\ aborted = FALSE
    /\ res = NoResponse
    /\ outcome = "pending"
    /\ transferred = 0
    /\ delivered = 0
    /\ bodyError = "none"
    /\ rewriterStarted = FALSE
    /\ pickedCharset = [priority |-> 0, content |-> NULL]
    /\ charset = NULL
    /\ detection = NotCalled
    /\ metaCharsetSeen = NULL
    /\ httpEquivCharsetSeen = NULL
    /\ nonBlankSeen = NoHints
    /\ thrown = NoError

(***************************************************************************)
(* getResponse.                                                            *)
(***************************************************************************)
\* clearTimeout: a timer that has not fired never will
clearTimeout(handle) == IF handle = "armed" THEN "cleared" ELSE handle

\* args.contentLengthLimit ?? DEFAULT_MAX_RESPONSE_SIZE
MaxSize(a) ==
    IF a.contentLengthLimit = Undefined
    THEN DEFAULT_MAX_RESPONSE_SIZE
    ELSE a.contentLengthLimit

\* the checks between the headers and the body stream: the error thrown, or ok
Validate_NoTypeFilter(a, r) ==
    IF ~Ok(r.status) THEN "StatusError"
    ELSE IF ContentLengthTruthy(r.contentLength)
    THEN IF DeclaredSizeExceeds(r.contentLength, MaxSize(a))
         THEN "SizeExceeded" ELSE "ok"
    ELSE IF a.contentLengthRequired THEN "ContentLengthRequired" ELSE "ok"
Validate_NoRequired(a, r) ==
    IF ~Ok(r.status) THEN "StatusError"
    ELSE IF a.typeFilter /\ ~TypeFilterMatches(r.contentType) THEN "TypeRejected"
    ELSE IF ContentLengthTruthy(r.contentLength)
    THEN IF DeclaredSizeExceeds(r.contentLength, MaxSize(a))
         THEN "SizeExceeded" ELSE "ok"
    ELSE "ok"
Validate_TypeFirst(a, r) ==
    IF a.typeFilter /\ ~TypeFilterMatches(r.contentType) THEN "TypeRejected"
    ELSE IF ~Ok(r.status) THEN "StatusError"
    ELSE IF ContentLengthTruthy(r.contentLength)
    THEN IF DeclaredSizeExceeds(r.contentLength, MaxSize(a))
         THEN "SizeExceeded" ELSE "ok"
    ELSE IF a.contentLengthRequired THEN "ContentLengthRequired" ELSE "ok"
Validate(a, r) ==
    IF ~Ok(r.status) THEN "StatusError"
    ELSE IF a.typeFilter /\ ~TypeFilterMatches(r.contentType) THEN "TypeRejected"
    ELSE IF ContentLengthTruthy(r.contentLength)
    THEN IF DeclaredSizeExceeds(r.contentLength, MaxSize(a))
         THEN "SizeExceeded" ELSE "ok"
    ELSE IF a.contentLengthRequired THEN "ContentLengthRequired" ELSE "ok"

\* new StatusError(`${res.status} ${res.statusText}`, res.status, res.statusText)
StatusError(r) == [statusCode |-> r.status, statusMessage |-> r.statusText]

\* clearTimeout(timeoutHandle) once fetch has resolved
TimeoutAfterHeaders_Kept(handle) == handle
TimeoutAfterHeaders(handle) == clearTimeout(handle)

\* clearTimeout(operationTimeoutHandle) before getResponse returns
OperationTimeoutOnReturn(handle) == clearTimeout(handle)

\* the catch block: both timers cleared, the controller aborted, the error rethrown
CatchOperationTimeout_Kept(handle) == handle
CatchOperationTimeout(handle) == clearTimeout(handle)
CatchTimeout(handle) == clearTimeout(handle)
CatchAbort_Kept(a) == a
CatchAbort(a) == TRUE

Catch(e, handle) ==
    /\ timeoutHandle' = CatchTimeout(handle)
    /\ operationTimeoutHandle' = CatchOperationTimeout(operationTimeoutHandle)
    /\ aborted' = CatchAbort(aborted)
    /\ outcome' = e
    /\ pc' = "failed"

\* the first lines of getResponse: a new controller and both timers armed
GetResponseStart(a) ==
    /\ pc = "idle"
    /\ args' = a
    /\ aborted' = FALSE
    /\ timeoutHandle' = "armed"
    /\ operationTimeoutHandle' = "armed"
    /\ pc' = "fetch"
    /\ UNCHANGED <<res, outcome, transferred, delivered, bodyError, rewriterStarted,
                   pickedCharset, charset, detection, metaCharsetSeen,
                   httpEquivCharsetSeen>>
    /\ UNCHANGED <<nonBlankSeen, thrown>>
    /\ UNCHANGED auxVars

LimitChoices == {Undefined} \cup 0..MaxLimit

CallScpaping ==
    \E limit \in LimitChoices, required \in BOOLEAN :
        GetResponseStart([kind |-> "scpaping", typeFilter |-> TRUE,
                          contentLengthLimit |-> limit,
                          contentLengthRequired |-> required])

CallGet ==
    GetResponseStart([kind |-> "get", typeFilter |-> FALSE,
                      contentLengthLimit |-> Undefined,
                      contentLengthRequired |-> FALSE])

CallHead ==
    GetResponseStart([kind |-> "head", typeFilter |-> FALSE,
                      contentLengthLimit |-> Undefined,
                      contentLengthRequired |-> FALSE])

\* setTimeout(() => controller.abort(), timeout)
ResponseTimeoutFires ==
    /\ timeoutHandle = "armed"
    /\ timeoutHandle' = "fired"
    /\ aborted' = TRUE
    /\ UNCHANGED <<pc, args, operationTimeoutHandle, res, outcome, transferred,
                   delivered, bodyError, rewriterStarted, pickedCharset, charset,
                   detection, metaCharsetSeen, httpEquivCharsetSeen>>
    /\ UNCHANGED <<nonBlankSeen, thrown>>
    /\ UNCHANGED auxVars

\* setTimeout(() => controller.abort(), operationTimeout)
OperationTimeoutFires ==
    /\ operationTimeoutHandle = "armed"
    /\ operationTimeoutHandle' = "fired"
    /\ aborted' = TRUE
    /\ UNCHANGED <<pc, args, timeoutHandle, res, outcome, transferred,
                   delivered, bodyError, rewriterStarted, pickedCharset, charset,
                   detection, metaCharsetSeen, httpEquivCharsetSeen>>
    /\ UNCHANGED <<nonBlankSeen, thrown>>
    /\ UNCHANGED auxVars

\* await fetch(...) rejects because the signal was aborted
FetchAborted ==
    /\ pc = "fetch"
    /\ aborted
    /\ Catch("AbortError", timeoutHandle)
    /\ UNCHANGED <<args, res, transferred, delivered, bodyError, rewriterStarted,
                   pickedCharset, charset, detection, metaCharsetSeen,
                   httpEquivCharsetSeen>>
    /\ UNCHANGED <<nonBlankSeen, thrown>>
    /\ UNCHANGED auxVars

\* await fetch(...) rejects with a network failure
FetchFails ==
    /\ pc = "fetch"
    /\ ~aborted
    /\ Catch("NetworkError", timeoutHandle)
    /\ UNCHANGED <<args, res, transferred, delivered, bodyError, rewriterStarted,
                   pickedCharset, charset, detection, metaCharsetSeen,
                   httpEquivCharsetSeen>>
    /\ UNCHANGED <<nonBlankSeen, thrown>>
    /\ UNCHANGED auxVars

(***************************************************************************)
(* await fetch(...) resolves with the response headers, and getResponse    *)
(* runs to its return or its throw.  On a return the caller goes on in the *)
(* same turn of the event loop: head is done, get starts reading the body, *)
(* scpaping creates its charset slot and starts the rewriter on the body.  *)
(***************************************************************************)
HeadersArrive ==
    \E r \in Responses :
        /\ pc = "fetch"
        /\ ~aborted
        /\ res' = r
        /\ IF Validate(args, r) = "ok"
           THEN /\ timeoutHandle' = TimeoutAfterHeaders(timeoutHandle)
                /\ transferred' = 0
                /\ operationTimeoutHandle' =
                       OperationTimeoutOnReturn(operationTimeoutHandle)
                /\ outcome' = "ok"
                /\ pc' = IF args.kind = "head" THEN "done" ELSE "body"
                /\ pickedCharset' = [priority |-> 0, content |-> NULL]
                /\ rewriterStarted' = (args.kind = "scpaping")
                /\ UNCHANGED <<aborted, thrown>>
           ELSE /\ Catch(Validate(args, r), TimeoutAfterHeaders(timeoutHandle))
                /\ thrown' = IF Validate(args, r) = "StatusError"
                             THEN StatusError(r)
                             ELSE thrown
                /\ UNCHANGED <<transferred, pickedCharset, rewriterStarted>>
        /\ UNCHANGED <<args, delivered, bodyError, charset, detection,
                       metaCharsetSeen, httpEquivCharsetSeen>>
        /\ UNCHANGED nonBlankSeen
        /\ UNCHANGED auxVars

(***************************************************************************)
(* The size guard on the body stream.                                      *)
(***************************************************************************)
\* if (transferred > maxSize) throw ...
SizeGuardExceeds_GE(count, maxSize) == count >= maxSize
SizeGuardExceeds(count, maxSize) == count > maxSize

\* sizes of the chunks the server sends
ChunkLengths == {1, 2, DEFAULT_MAX_RESPONSE_SIZE}

(***************************************************************************)
(* The prioritized charset slot and the element handler of scpaping.      *)
(***************************************************************************)
assign_NoPriority(slot, priority, content) ==
    IF Truthy(content)
    THEN [priority |-> priority, content |-> content]
    ELSE slot
assign_Strict(slot, priority, content) ==
    IF Truthy(content) /\ slot.priority < priority
    THEN [priority |-> priority, content |-> content]
    ELSE slot
assign(slot, priority, content) ==
    IF Truthy(content) /\ slot.priority <= priority
    THEN [priority |-> priority, content |-> content]
    ELSE slot

\* an element as the handler sees it: its tag and the attributes it reads
Element(t, c, h, v) == [tag |-> t, charset |-> c, httpEquiv |-> h, content |-> v]
Elements ==
    {Element("meta", c, NULL, NoContentType) : c \in Labels}
    \cup {Element("meta", NULL, "Content-Type", ContentTypeValue("text/html", c)) :
            c \in Labels \cup {NULL}}
    \cup {Element("meta", NULL, "content-type", ContentTypeValue("text/html/", "utf-8")),
          Element("meta", NULL, "refresh", ContentTypeValue("text/html", "euc-jp")),
          Element("meta", "euc-jp", "content-type", ContentTypeValue("text/html", "utf-8")),
          Element("script", "euc-jp", NULL, NoContentType),
          Element("div", NULL, NULL, NoContentType)}

\* what the element handler does to the charset slot
ElementCharset(slot, el) ==
    IF el.tag = "meta"
    THEN LET withAttr == IF Truthy(el.charset)
                         THEN assign(slot, 3, el.charset)
                         ELSE slot
             httpEquiv == IF el.httpEquiv = NULL THEN NULL
                          ELSE ToLowerCase(el.httpEquiv)
         IN  IF httpEquiv = "content-type"
             THEN assign(withAttr, 2, getCharset(el.content))
             ELSE withAttr
    ELSE slot

\* the hints of a document, as the data model names them
MetaCharsetOf(el, before) ==
    IF el.tag = "meta" /\ Truthy(el.charset) THEN el.charset ELSE before
HttpEquivCharsetOf(el, before) ==
    IF /\ el.tag = "meta"
       /\ el.httpEquiv # NULL
       /\ ToLowerCase(el.httpEquiv) = "content-type"
       /\ Truthy(getCharset(el.content))
    THEN getCharset(el.content)
    ELSE before

\* a hint that consists of white space only
Blank(hint) == hint = " "

\* the same hints with the white-space-only values passed over
NonBlankOf(el, before) ==
    [meta |-> IF Blank(MetaCharsetOf(el, NULL))
              THEN before.meta
              ELSE MetaCharsetOf(el, before.meta),
     httpEquiv |-> IF Blank(HttpEquivCharsetOf(el, NULL))
                   THEN before.httpEquiv
                   ELSE HttpEquivCharsetOf(el, before.httpEquiv)]

(***************************************************************************)
(* encoding.js: toEncoding and detectEncoding.                             *)
(***************************************************************************)
\* a label the decoding library knows
EncodingExists(label) == label \in RecognizedLabels

toEncoding(candidate) ==
    IF candidate = NULL \/ ~EncodingExists(candidate) THEN NULL
    ELSE IF ToLowerCase(candidate) \in {"shift_jis", "shift-jis", "windows-31j", "x-sjis"}
    THEN "cp932"
    ELSE candidate

\* what detectEncoding may return for a buffer
DetectionResults == {NULL, "euc-jp", "Shift_JIS", "bogus"}

(***************************************************************************)
(* Reading the body: a chunk arrives and goes through the size guard;      *)
(* what the guard enqueues reaches the reader (text() for get, the         *)
(* rewriter for scpaping, whose element handler sees the chunk's element). *)
(***************************************************************************)
ChunkArrives ==
    \E len \in ChunkLengths, el \in Elements :
        /\ pc = "body"
        /\ res.hasBody
        /\ transferred < MaxBytes
        /\ transferred' = transferred + len
        /\ IF SizeGuardExceeds(transferred + len, MaxSize(args))
           THEN /\ bodyError' = "SizeExceeded"
                /\ pc' = "failed"
                /\ UNCHANGED <<delivered, pickedCharset, metaCharsetSeen,
                               httpEquivCharsetSeen, nonBlankSeen>>
           ELSE /\ delivered' = delivered + len
                /\ IF args.kind = "scpaping"
                   THEN /\ pickedCharset' = ElementCharset(pickedCharset, el)
                        /\ metaCharsetSeen' = MetaCharsetOf(el, metaCharsetSeen)
                        /\ httpEquivCharsetSeen' =
                               HttpEquivCharsetOf(el, httpEquivCharsetSeen)
                        /\ nonBlankSeen' = NonBlankOf(el, nonBlankSeen)
                   ELSE UNCHANGED <<pickedCharset, metaCharsetSeen,
                                    httpEquivCharsetSeen, nonBlankSeen>>
                /\ UNCHANGED <<pc, bodyError>>
        /\ UNCHANGED <<args, timeoutHandle, operationTimeoutHandle, aborted, res,
                       outcome, rewriterStarted, charset, detection>>
        /\ UNCHANGED thrown
        /\ UNCHANGED auxVars

\* the connection fails while the body is read
BodyFails ==
    /\ pc = "body"
    /\ res.hasBody
    /\ bodyError' = "NetworkError"
    /\ pc' = "failed"
    /\ UNCHANGED <<args, timeoutHandle, operationTimeoutHandle, aborted, res,
                   outcome, transferred, delivered, rewriterStarted, pickedCharset,
                   charset, detection, metaCharsetSeen, httpEquivCharsetSeen>>
    /\ UNCHANGED <<nonBlankSeen, thrown>>
    /\ UNCHANGED auxVars

(***************************************************************************)
(* The body ends.  get returns its text; scpaping resolves the charset:    *)
(* the header charset is assigned at priority 1, the slot's content goes   *)
(* through toEncoding, detection is asked when that gives nothing, and     *)
(* utf-8 is the default.                                                   *)
(***************************************************************************)
\* charset ??= 'utf-8'
DefaultCharset_None(found) == found
DefaultCharset(found) == IF found = NULL THEN "utf-8" ELSE found

BodyEnds ==
    \E detected \in DetectionResults :
        /\ pc = "body"
        /\ pc' = "done"
        /\ IF args.kind = "scpaping"
           THEN LET slot == assign(pickedCharset, 1, getCharset(res.contentType))
                    fromSlot == toEncoding(slot.content)
                    fromDetection == toEncoding(detected)
                IN  /\ pickedCharset' = slot
                    /\ detection' = IF fromSlot = NULL THEN detected ELSE NotCalled
                    /\ charset' = DefaultCharset(IF fromSlot # NULL THEN fromSlot
                                                 ELSE fromDetection)
           ELSE UNCHANGED <<pickedCharset, detection, charset>>
        /\ UNCHANGED <<args, timeoutHandle, operationTimeoutHandle, aborted, res,
                       outcome, transferred, delivered, bodyError, rewriterStarted,
                       metaCharsetSeen, httpEquivCharsetSeen>>
        /\ UNCHANGED <<nonBlankSeen, thrown>>
        /\ UNCHANGED auxVars

(***************************************************************************)
(* assign on its own: any slot the program can hold, any priority and any  *)
(* content.                                                                *)
(***************************************************************************)
\* highest priority tried (scpaping itself writes at 1, 2 and 3)
MaxPriority == 3

NoCall == [before |-> [priority |-> 0, content |-> NULL], priority |-> 0 - 1, content |-> NULL]

\* a slot is as created (priority 0, null) or holds what a write left in it
Slots ==
    {[priority |-> 0, content |-> NULL]}
    \cup [priority : 0..MaxPriority, content : {c \in Labels : Truthy(c)}]

AssignIdle ==
    /\ target = [priority |-> 0, content |-> NULL]
    /\ assignCall = NoCall

AssignInit ==
    /\ target \in Slots
    /\ assignCall = NoCall

AssignCalled ==
    \E p \in 0..MaxPriority, c \in Labels \cup {NULL} :
        /\ assignCall' = [before |-> target, priority |-> p, content |-> c]
        /\ target' = assign(target, p, c)

(***************************************************************************)
(* The rewriter of scpaping on its own: the document comes as start tags,  *)
(* text and end tags; the element handler runs at every start tag and the  *)
(* rewriter writes out what the handler left in place.  remove() takes out *)
(* the start tag, the content and the end tag; removeAndKeepContent()      *)
(* takes out the two tags only and does not bring back content that        *)
(* remove() took out; what lies in removed content is not written.         *)
(***************************************************************************)
\* longest document tried, in tokens
MaxTokens == 4

StartTag(t, i, c) == [kind |-> "start", tag |-> t, id |-> i, charset |-> c]
TextChunk == [kind |-> "text", tag |-> NULL, id |-> NULL, charset |-> NULL]
EndTag(t) == [kind |-> "end", tag |-> t, id |-> NULL, charset |-> NULL]

StartTags ==
    {StartTag(t, NULL, NULL) : t \in {"script", "style", "template", "svg", "title", "link", "div"}}
    \cup {StartTag("div", i, NULL) : i \in {"title", "productDescription", "landingImage", "other"}}
    \cup {StartTag("svg", "title", NULL), StartTag("meta", NULL, "euc-jp")}

\* elements without content or end tag
VoidTags == {"link", "meta"}
\* elements whose content is text up to their end tag
RawTextTags == {"script", "style"}

\* if (tag === 'script' || tag === 'template' || tag === 'style' || tag === 'svg')
RemoveCalled_NoSvg(tag) == tag \in {"script", "template", "style"}
RemoveCalled(tag) == tag \in {"script", "template", "style", "svg"}

\* if (tag !== 'title' && tag !== 'link' && tag !== 'meta' && id !== 'title' && ...)
RemoveAndKeepContentCalled_TagOnly(tag, id) == tag \notin {"title", "link", "meta"}
RemoveAndKeepContentCalled(tag, id) ==
    /\ tag \notin {"title", "link", "meta"}
    /\ id \notin {"title", "productDescription", "landingImage"}

\* some open element had remove() called on it
InRemovedContent(open) == \E i \in 1..Len(open) : open[i].removeContent

StartTagArrives ==
    \E t \in StartTags :
        /\ Len(tokens) < MaxTokens
        /\ openElements # <<>> =>
               openElements[Len(openElements)].tag \notin RawTextTags
        /\ tokens' = Append(tokens, t)
        /\ pickedCharset' =
               ElementCharset(pickedCharset, Element(t.tag, t.charset, NULL, NoContentType))
        /\ LET removed == RemoveCalled(t.tag)
               unwrapped == RemoveAndKeepContentCalled(t.tag, t.id)
           IN  /\ output' = IF InRemovedContent(openElements) \/ removed \/ unwrapped
                            THEN output
                            ELSE Append(output, Len(tokens) + 1)
               /\ openElements' =
                      IF t.tag \in VoidTags THEN openElements
                      ELSE Append(openElements,
                                  [tag |-> t.tag,
                                   removeContent |-> removed,
                                   removeEndTag |-> removed \/ unwrapped])
        /\ UNCHANGED <<fetchVars, assignVars, calls, summalyVars>>

TextArrives ==
    /\ Len(tokens) < MaxTokens
    /\ tokens' = Append(tokens, TextChunk)
    /\ output' = IF InRemovedContent(openElements)
                 THEN output
                 ELSE Append(output, Len(tokens) + 1)
    /\ UNCHANGED <<openElements, callVars, assignVars, calls, summalyVars>>

EndTagArrives ==
    /\ Len(tokens) < MaxTokens
    /\ openElements # <<>>
    /\ LET top == openElements[Len(openElements)]
           rest == SubSeq(openElements, 1, Len(openElements) - 1)
       IN  /\ tokens' = Append(tokens, EndTag(top.tag))
           /\ openElements' = rest
           /\ output' = IF InRemovedContent(rest) \/ top.removeEndTag
                        THEN output
                        ELSE Append(output, Len(tokens) + 1)
    /\ UNCHANGED <<callVars, assignVars, calls, summalyVars>>

(***************************************************************************)
(* Two scpaping calls at once.  Every call of getResponse creates its      *)
(* controller and its two timers and its counter of transferred bytes, and *)
(* every call of scpaping its charset slot: calls keeps each of them under *)
(* the call they belong to.  A handler is given as the set of states it    *)
(* can leave the two calls in.                                             *)
(***************************************************************************)
CallIds == {1, 2}

\* const controller = new AbortController(), in getResponse
ControllerOf_Shared(call) == 1
ControllerOf(call) == call
\* const timeoutHandle, const operationTimeoutHandle, in getResponse
TimersOf(call) == call
\* let transferred = 0, in getResponse
CounterOf(call) == call
\* const pickedCharset, in scpaping
SlotOf(call) == call

\* what scpaping passes to getResponse, with a limit of one byte
PairArgs ==
    [kind |-> "scpaping", typeFilter |-> TRUE,
     contentLengthLimit |-> 1, contentLengthRequired |-> FALSE]

PairResponses ==
    {r \in Responses :
        /\ r.status \in {200, 404}
        /\ r.statusText # ""
        /\ r.contentType \in {ContentTypeValue("text/html", NULL),
                              ContentTypeValue("text/html", "euc-jp")}
        /\ r.contentLength = NoContentLength
        /\ r.hasBody}

PairElements ==
    {Element("meta", "Shift_JIS", NULL, NoContentType),
     Element("div", NULL, NULL, NoContentType)}

PairDetectionResults == {NULL, "euc-jp"}

NoCalls ==
    [pc |-> [i \in CallIds |-> "idle"],
     timeoutHandle |-> [i \in CallIds |-> "unset"],
     operationTimeoutHandle |-> [i \in CallIds |-> "unset"],
     aborted |-> [i \in CallIds |-> FALSE],
     res |-> [i \in CallIds |-> NoResponse],
     outcome |-> [i \in CallIds |-> "pending"],
     transferred |-> [i \in CallIds |-> 0],
     bodyError |-> [i \in CallIds |-> "none"],
     pickedCharset |-> [i \in CallIds |-> [priority |-> 0, content |-> NULL]],
     charset |-> [i \in CallIds |-> NULL]]

\* the first lines of getResponse
StartOf(i, cs) ==
    IF cs.pc[i] # "idle" THEN {}
    ELSE {[cs EXCEPT !.pc[i] = "fetch",
                     !.aborted[ControllerOf(i)] = FALSE,
                     !.timeoutHandle[TimersOf(i)] = "armed",
                     !.operationTimeoutHandle[TimersOf(i)] = "armed"]}

\* setTimeout(() => controller.abort(), timeout)
ResponseTimeoutOf(i, cs) ==
    IF cs.timeoutHandle[TimersOf(i)] # "armed" THEN {}
    ELSE {[cs EXCEPT !.timeoutHandle[TimersOf(i)] = "fired",
                     !.aborted[ControllerOf(i)] = TRUE]}

\* setTimeout(() => controller.abort(), operationTimeout)
OperationTimeoutOf(i, cs) ==
    IF cs.operationTimeoutHandle[TimersOf(i)] # "armed" THEN {}
    ELSE {[cs EXCEPT !.operationTimeoutHandle[TimersOf(i)] = "fired",
                     !.aborted[ControllerOf(i)] = TRUE]}

\* the catch block of getResponse
CatchOf(i, cs, e) ==
    [cs EXCEPT !.timeoutHandle[TimersOf(i)] = CatchTimeout(@),
               !.operationTimeoutHandle[TimersOf(i)] = CatchOperationTimeout(@),
               !.aborted[ControllerOf(i)] = CatchAbort(@),
               !.outcome[i] = e,
               !.pc[i] = "failed"]

\* await fetch(...) resolves with r, and getResponse runs to its end
HeadersOf(i, cs, r) ==
    LET got == [cs EXCEPT !.res[i] = r,
                          !.timeoutHandle[TimersOf(i)] = TimeoutAfterHeaders(@)]
    IN  IF Validate(PairArgs, r) = "ok"
        THEN [got EXCEPT !.transferred[CounterOf(i)] = 0,
                         !.operationTimeoutHandle[TimersOf(i)] =
                             OperationTimeoutOnReturn(@),
                         !.outcome[i] = "ok",
                         !.pickedCharset[SlotOf(i)] = [priority |-> 0, content |-> NULL],
                         !.pc[i] = "body"]
        ELSE CatchOf(i, got, Validate(PairArgs, r))

\* await fetch(...) settles: rejected when the signal is aborted, else
\* rejected by the network or resolved with a response
FetchSettlesOf(i, cs) ==
    IF cs.pc[i] # "fetch" THEN {}
    ELSE IF cs.aborted[ControllerOf(i)] THEN {CatchOf(i, cs, "AbortError")}
    ELSE {CatchOf(i, cs, "NetworkError")}
         \cup {HeadersOf(i, cs, r) : r \in PairResponses}

\* a chunk goes through the size guard and, when enqueued, the rewriter
ChunkThrough(i, cs, len, el) ==
    LET counted == [cs EXCEPT !.transferred[CounterOf(i)] = @ + len]
    IN  IF SizeGuardExceeds(counted.transferred[CounterOf(i)], MaxSize(PairArgs))
        THEN [counted EXCEPT !.bodyError[i] = "SizeExceeded", !.pc[i] = "failed"]
        ELSE [counted EXCEPT !.pickedCharset[SlotOf(i)] = ElementCharset(@, el)]

\* the body stream gives a chunk, or an error when the signal is aborted
ChunkOf(i, cs) ==
    IF cs.pc[i] # "body" \/ cs.transferred[CounterOf(i)] >= MaxBytes THEN {}
    ELSE IF cs.aborted[ControllerOf(i)]
    THEN {[cs EXCEPT !.bodyError[i] = "AbortError", !.pc[i] = "failed"]}
    ELSE {ChunkThrough(i, cs, len, el) : len \in {1, 2}, el \in PairElements}

\* the body ends and scpaping resolves the charset
BodyEndsOf(i, cs) ==
    IF cs.pc[i] # "body" THEN {}
    ELSE {LET slot == assign(cs.pickedCharset[SlotOf(i)], 1,
                             getCharset(cs.res[i].contentType))
              fromSlot == toEncoding(slot.content)
          IN  [cs EXCEPT !.pickedCharset[SlotOf(i)] = slot,
                         !.charset[i] = DefaultCharset(IF fromSlot # NULL THEN fromSlot
                                                       ELSE toEncoding(detected)),
                         !.pc[i] = "done"] : detected \in PairDetectionResults}

PairFrame == UNCHANGED <<callVars, assignVars, stripVars, summalyVars>>

PairCallStarts == \E i \in CallIds : calls' \in StartOf(i, calls) /\ PairFrame
PairResponseTimeoutFires ==
    \E i \in CallIds : calls' \in ResponseTimeoutOf(i, calls) /\ PairFrame
PairOperationTimeoutFires ==
    \E i \in CallIds : calls' \in OperationTimeoutOf(i, calls) /\ PairFrame
PairFetchSettles == \E i \in CallIds : calls' \in FetchSettlesOf(i, calls) /\ PairFrame
PairChunkArrives == \E i \in CallIds : calls' \in ChunkOf(i, calls) /\ PairFrame
PairBodyEnds == \E i \in CallIds : calls' \in BodyEndsOf(i, calls) /\ PairFrame

(***************************************************************************)
(* summaly, called again and again.  An options object is a function from  *)
(* the names of the properties it has to their values; summaly called      *)
(* without options gets the object with no property.                       *)
(***************************************************************************)
\* most calls of summaly in a row
MaxCalls == 2

NoOptions == <<>>

\* export const summalyDefaultOptions = {lang: null, followRedirects: true, plugins: []}
DefaultOptions ==
    [lang |-> NULL, followRedirects |-> TRUE, plugins |-> <<>>]

\* object o with property k set to v
With(o, k, v) == [x \in DOMAIN o \cup {k} |-> IF x = k THEN v ELSE o[x]]

\* the options a caller passes: any of lang, followRedirects, plugins and
\* userAgent, or none
OptionChoices ==
    LET langs == {NoOptions, With(NoOptions, "lang", "ja")}
        redirects == langs \cup {With(o, "followRedirects", b) :
                                    o \in langs, b \in BOOLEAN}
        plugins == redirects \cup {With(o, "plugins", <<"plugin">>) : o \in redirects}
    IN  plugins \cup {With(o, "userAgent", "bot") : o \in plugins}

\* Object.assign(target, source): the own properties of source are written
\* to target, and target is what it returns
ObjectAssign(targetObject, source) ==
    [x \in DOMAIN targetObject \cup DOMAIN source |->
        IF x \in DOMAIN source THEN source[x] ELSE targetObject[x]]

\* the URLs of a call: the one given, and the one head answered with
GivenUrl == "url"
RedirectedUrl == "redirected"

NotRequested == "<not requested>"

\* how head(url) can settle: what getResponse makes of a response, or the
\* abort of a timer, or a network failure
HeadOutcomes ==
    {Validate([kind |-> "head", typeFilter |-> FALSE,
               contentLengthLimit |-> Undefined,
               contentLengthRequired |-> FALSE], r) : r \in Responses}
    \cup {"AbortError", "NetworkError"}

\* try { actualUrl = (await head(url)).response.url } catch (e) { actualUrl = url }
AfterHead_NoCatch(settled, responseUrl) ==
    IF settled = "ok"
    THEN [actualUrl |-> responseUrl, pc |-> "summarize"]
    ELSE [actualUrl |-> GivenUrl, pc |-> "failed"]
AfterHead(settled, responseUrl) ==
    IF settled = "ok"
    THEN [actualUrl |-> responseUrl, pc |-> "summarize"]
    ELSE [actualUrl |-> GivenUrl, pc |-> "summarize"]

\* summaly up to its first await: the options are merged, and head is
\* requested when opts.followRedirects says so; without it the summarizer
\* is invoked with the given URL
SummalyCalled ==
    \E o \in OptionChoices :
        /\ summalyPc = "idle"
        /\ nCalls < MaxCalls
        /\ nCalls' = nCalls + 1
        /\ options' = o
        /\ summalyDefaultOptions' = ObjectAssign(summalyDefaultOptions, o)
        /\ opts' = summalyDefaultOptions'
        /\ actualUrl' = GivenUrl
        /\ summalyPc' = IF opts'.followRedirects THEN "head" ELSE "summarize"
        /\ headOutcome' = IF opts'.followRedirects THEN "pending" ELSE NotRequested
        /\ summarizerUrl' = IF opts'.followRedirects THEN NULL ELSE GivenUrl
        /\ UNCHANGED <<callVars, assignVars, stripVars, calls>>

\* await head(url) settles: the response's URL, or the given one on a
\* failure; then the summarizer is invoked with it
HeadSettles ==
    \E settled \in HeadOutcomes, responseUrl \in {GivenUrl, RedirectedUrl} :
        /\ summalyPc = "head"
        /\ headOutcome' = settled
        /\ actualUrl' = AfterHead(settled, responseUrl).actualUrl
        /\ summalyPc' = AfterHead(settled, responseUrl).pc
        /\ summarizerUrl' = IF summalyPc' = "summarize" THEN actualUrl' ELSE summarizerUrl
        /\ UNCHANGED <<summalyDefaultOptions, opts, options, nCalls>>
        /\ UNCHANGED <<callVars, assignVars, stripVars, calls>>

\* the summarizer settles and summaly returns or throws
SummarizerSettles ==
    /\ summalyPc = "summarize"
    /\ summalyPc' = "idle"
    /\ UNCHANGED <<summalyDefaultOptions, opts, options, nCalls, actualUrl,
                   headOutcome, summarizerUrl>>
    /\ UNCHANGED <<callVars, assignVars, stripVars, calls>>

(***************************************************************************)
(* The specifications.                                                     *)
(***************************************************************************)
StripIdle == tokens = <<>> /\ openElements = <<>> /\ output = <<>>
PairIdle == calls = NoCalls
SummalyIdle ==
    /\ summalyDefaultOptions = DefaultOptions
    /\ opts = NoOptions
    /\ options = NoOptions
    /\ nCalls = 0
    /\ summalyPc = "idle"
    /\ actualUrl = NULL
    /\ headOutcome = NotRequested
    /\ summarizerUrl = NULL

\* one call of scpaping, get or head
Init == CallInit /\ AssignIdle /\ StripIdle /\ PairIdle /\ SummalyIdle

Next ==
    \/ CallScpaping
    \/ CallGet
    \/ CallHead
    \/ ResponseTimeoutFires
    \/ OperationTimeoutFires
    \/ FetchAborted
    \/ FetchFails
    \/ HeadersArrive
    \/ ChunkArrives
    \/ BodyFails
    \/ BodyEnds

Spec == Init /\ [][Next]_vars

\* assign, called again and again on one slot
InitAssign == CallInit /\ AssignInit /\ StripIdle /\ PairIdle /\ SummalyIdle

NextAssign ==
    AssignCalled /\ UNCHANGED <<callVars, stripVars, calls, summalyVars>>

SpecAssign == InitAssign /\ [][NextAssign]_vars

\* the rewriter, fed one document token by token
InitStrip == CallInit /\ AssignIdle /\ StripIdle /\ PairIdle /\ SummalyIdle

NextStrip ==
    \/ StartTagArrives
    \/ TextArrives
    \/ EndTagArrives

SpecStrip == InitStrip /\ [][NextStrip]_vars

\* two calls of scpaping, their steps interleaved in any order
InitPair == CallInit /\ AssignIdle /\ StripIdle /\ PairIdle /\ SummalyIdle

NextPair ==
    \/ PairCallStarts
    \/ PairResponseTimeoutFires
    \/ PairOperationTimeoutFires
    \/ PairFetchSettles
    \/ PairChunkArrives
    \/ PairBodyEnds

SpecPair == InitPair /\ [][NextPair]_vars

\* summaly, one call after the other
InitSummaly == CallInit /\ AssignIdle /\ StripIdle /\ PairIdle /\ SummalyIdle

NextSummaly ==
    \/ SummalyCalled
    \/ HeadSettles
    \/ SummarizerSettles

SpecSummaly == InitSummaly /\ [][NextSummaly]_vars

(***************************************************************************)
(* Properties.                                                             *)
(***************************************************************************)
Received == res # NoResponse
GetResponseThrew == outcome \notin {"pending", "ok"}
TypeMismatch == args.typeFilter /\ ~TypeFilterMatches(res.contentType)
DeclaredTooLarge ==
    /\ ContentLengthTruthy(res.contentLength)
    /\ res.contentLength.k = "num"
    /\ res.contentLength.n > MaxSize(args)
HeaderChecksPass ==
    /\ Ok(res.status)
    /\ ~TypeMismatch
    /\ ~DeclaredTooLarge
    /\ ~ContentLengthTruthy(res.contentLength) => ~args.contentLengthRequired

\* C1: while the body is being read (the headers arrived and passed the
\* checks), the operation timer is still armed, so that a stalled body ends
\* in an abort.
C1_OperationTimerCoversBody ==
    pc = "body" => operationTimeoutHandle = "armed"

\* C2: the size guard errors the stream at the first chunk that takes the
\* count of transferred bytes over the maximum; that chunk and every later
\* one are not delivered, the bytes delivered never exceed the maximum, and a
\* body that stays within the maximum (one of exactly the maximum included)
\* is delivered in full without error.
C2_TransferredSizeCap ==
    /\ [](delivered <= MaxSize(args))
    /\ [](pc = "body" => delivered = transferred /\ bodyError = "none")
    /\ [](pc = "done" /\ args.kind # "head" =>
            delivered = transferred /\ bodyError = "none")
    /\ [][transferred' # transferred =>
            IF transferred' > MaxSize(args)
            THEN /\ transferred <= MaxSize(args)
                 /\ bodyError' = "SizeExceeded"
                 /\ pc' = "failed"
                 /\ delivered' = delivered
            ELSE /\ delivered' = transferred'
                 /\ bodyError' = "none"
                 /\ pc' = "body"]_vars
    /\ [][bodyError = "SizeExceeded" =>
            delivered' = delivered /\ bodyError' = bodyError]_vars

\* C2 witness: exactly the maximum was delivered, and the next chunk errored
\* the stream.
C2_Witness ==
    /\ bodyError = "SizeExceeded"
    /\ delivered = MaxSize(args)
    /\ delivered > 0

\* C3: when the size guard finds the transferred bytes over the maximum, the
\* shared abort controller is triggered as well as the error raised.
C3_OverflowAborts ==
    bodyError = "SizeExceeded" => aborted

\* the charset hints of a finished scpaping call, by priority: the meta
\* charset attribute (3), the meta http-equiv charset (2), the header's (1)
HeaderCharset == getCharset(res.contentType)
Hints == <<metaCharsetSeen, httpEquivCharsetSeen, HeaderCharset>>
Present(hint) == Truthy(hint)
Recognized(hint) == toEncoding(hint) # NULL
Resolved == pc = "done" /\ args.kind = "scpaping"
\* what detection and the utf-8 default give when no hint is chosen
DetectedOrDefault ==
    /\ detection # NotCalled
    /\ charset = IF toEncoding(detection) # NULL THEN toEncoding(detection) ELSE "utf-8"
\* a hint that is white space only (its own claim) is left out of C4 and C5

\* C4: a hint whose label the decoding library does not recognize counts as
\* absent: the charset is that of the highest-priority hint that is present
\* and recognized (meta charset, then http-equiv, then the header), and
\* detection and utf-8 come only after all three.
C4_UnrecognizedFallsThrough ==
    Resolved /\ (\A i \in 1..3 : ~Blank(Hints[i])) =>
        IF \E i \in 1..3 : Recognized(Hints[i])
        THEN LET first == CHOOSE i \in 1..3 :
                              /\ Recognized(Hints[i])
                              /\ \A j \in 1..(i - 1) : ~Recognized(Hints[j])
             IN  charset = toEncoding(Hints[first]) /\ detection = NotCalled
        ELSE DetectedOrDefault

\* C5: with every hint either absent or a recognized label, the charset is
\* the meta charset attribute's if present, else the http-equiv's if
\* present, else the header's if present, whatever the order of the
\* elements; detection is asked only when none is present, and utf-8 is used
\* when detection gives nothing.
C5_SourcePriority ==
    Resolved /\ (\A i \in 1..3 : Present(Hints[i]) => Recognized(Hints[i])) =>
        IF \E i \in 1..3 : Present(Hints[i])
        THEN LET first == CHOOSE i \in 1..3 :
                              /\ Present(Hints[i])
                              /\ \A j \in 1..(i - 1) : ~Present(Hints[j])
             IN  /\ pickedCharset = [priority |-> 4 - first, content |-> Hints[first]]
                 /\ charset = toEncoding(Hints[first])
                 /\ detection = NotCalled
        ELSE pickedCharset.content = NULL /\ DetectedOrDefault

\* C5 witness: all three sources carry a recognized hint, each a different
\* one, and the meta charset attribute's was chosen.
C5_Witness ==
    /\ Resolved
    /\ \A i \in 1..3 : Recognized(Hints[i])
    /\ Cardinality({Hints[i] : i \in 1..3}) = 3
    /\ charset = toEncoding(metaCharsetSeen)

\* C6 as stated: with a type filter, a response whose Content-Type is
\* missing or does not match makes getResponse fail with the type-rejected
\* error.
C6_TypeRejectedAlways ==
    Received /\ TypeMismatch => outcome = "TypeRejected"

\* C6 (amended): with a type filter, a response whose Content-Type is
\* missing or does not match makes getResponse fail, with the type-rejected
\* error when the status is 2xx and with the status error otherwise; the
\* rewriter is never started and no body byte is read or delivered.  The
\* rewriter starts and bytes are delivered only after getResponse returned,
\* that is after every header check passed.
C6_TypeFilterBeforeStreaming ==
    /\ Received /\ TypeMismatch =>
        /\ pc = "failed"
        /\ outcome = IF Ok(res.status) THEN "TypeRejected" ELSE "StatusError"
        /\ ~rewriterStarted
        /\ transferred = 0 /\ delivered = 0
    /\ rewriterStarted \/ transferred > 0 \/ delivered > 0 =>
        outcome = "ok" /\ Received /\ HeaderChecksPass

\* C6 witness: a 2xx response was rejected by the type filter.
C6_Witness ==
    /\ Received /\ TypeMismatch /\ Ok(res.status)
    /\ outcome = "TypeRejected"
    /\ pc = "failed"

\* C7 as stated: a response whose Content-Length is greater than the
\* maximum makes getResponse fail with the size-exceeded error.
C7_SizeExceededAlways ==
    Received /\ DeclaredTooLarge => outcome = "SizeExceeded"

\* C7 (amended): a response whose Content-Length is greater than the
\* maximum makes getResponse fail before any body byte is read or
\* delivered: with the size-exceeded error when the status is 2xx and the
\* type filter passes, with the status or the type-rejected error otherwise.
\* A declared length equal to the maximum passes the size check.
C7_DeclaredSizeCheck ==
    /\ Received /\ DeclaredTooLarge =>
        /\ pc = "failed"
        /\ outcome = IF ~Ok(res.status) THEN "StatusError"
                     ELSE IF TypeMismatch THEN "TypeRejected"
                     ELSE "SizeExceeded"
        /\ transferred = 0 /\ delivered = 0 /\ ~rewriterStarted
    /\ /\ Received /\ Ok(res.status) /\ ~TypeMismatch
       /\ res.contentLength = [k |-> "num", n |-> MaxSize(args)]
       => outcome = "ok"

\* C7 witness: a declared length of the maximum plus one was refused.
C7_Witness ==
    /\ Received
    /\ res.contentLength = [k |-> "num", n |-> MaxSize(args) + 1]
    /\ outcome = "SizeExceeded"

\* C8: once getResponse has returned or thrown, neither timer is armed.
C8_NoTimerLeak ==
    outcome # "pending" =>
        timeoutHandle # "armed" /\ operationTimeoutHandle # "armed"

\* C8 witness: getResponse threw on a header check, and the operation timer,
\* armed until then, is cleared.
C8_Witness ==
    /\ outcome = "ContentLengthRequired"
    /\ operationTimeoutHandle = "cleared"
    /\ timeoutHandle = "cleared"

\* C9: whenever getResponse has thrown, whatever the error, the controller
\* is aborted.
C9_AbortOnEveryError ==
    GetResponseThrew => aborted

\* C9 witness: a network failure with no timer fired, so that the abort
\* comes from the catch block alone.
C9_Witness ==
    /\ outcome = "NetworkError"
    /\ timeoutHandle = "cleared" /\ operationTimeoutHandle = "cleared"
    /\ aborted

\* C10: the response timer is armed when the request starts and stays so
\* while the headers are awaited; if it fires, the headers have not arrived,
\* the controller is aborted and the call can only fail (the fetch rejects,
\* no response is accepted any more); once the headers are received it is
\* cleared, and it never changes (so never fires) afterwards.
C10_ResponseTimeoutBoundsHeaderWait ==
    /\ [][pc = "idle" /\ pc' = "fetch" => timeoutHandle' = "armed"]_vars
    /\ [](pc = "fetch" => timeoutHandle \in {"armed", "fired"})
    /\ [](timeoutHandle = "fired" =>
            /\ aborted
            /\ ~Received
            /\ pc \in {"fetch", "failed"}
            /\ outcome \in {"pending", "AbortError"})
    /\ [](timeoutHandle = "fired" /\ pc = "fetch" =>
            ENABLED FetchAborted /\ ~ENABLED HeadersArrive)
    /\ [](Received => timeoutHandle = "cleared")
    /\ [][Received => timeoutHandle' = timeoutHandle]_vars

\* C10 witness: the response timer fired before the headers and the call
\* failed with the abort.
C10_Witness ==
    /\ timeoutHandle = "fired"
    /\ operationTimeoutHandle = "cleared"
    /\ outcome = "AbortError"
    /\ pc = "failed"

\* C11: whenever getResponse has returned a result, the status is 2xx, the
\* Content-Type matches the type filter if one is configured, a declared
\* Content-Length is not greater than the maximum, and the Content-Length
\* header is present if it is required.
C11_NeverPartiallyValid ==
    outcome = "ok" =>
        /\ Received
        /\ res.status \in 200..299
        /\ args.typeFilter => TypeFilterMatches(res.contentType)
        /\ res.contentLength.k = "num" => res.contentLength.n <= MaxSize(args)
        /\ args.contentLengthRequired => res.contentLength.k \notin {"absent", "empty"}

\* C11 witness: a result was returned for a call with a type filter and a
\* required Content-Length, the declared length being the maximum itself.
C11_Witness ==
    /\ outcome = "ok"
    /\ args.typeFilter /\ args.contentLengthRequired
    /\ res.contentLength = [k |-> "num", n |-> MaxSize(args)]
    /\ res.contentLength.n > 0

\* C12: for every slot and every call assign(slot, p, c), the slot becomes
\* (p, c) if and only if c is neither null nor empty and p is at least the
\* slot's priority, and is left as it was otherwise; so of two non-empty
\* writes at one priority the later one stays.
C12_AssignWriteRule ==
    assignCall # NoCall =>
        LET before == assignCall.before
            p == assignCall.priority
            c == assignCall.content
        IN  IF c # NULL /\ c # "" /\ p >= before.priority
            THEN target = [priority |-> p, content |-> c]
            ELSE target = before

\* C12 witness: a non-empty write at the slot's own priority replaced a
\* different content written there before.
C12_Witness ==
    /\ assignCall # NoCall
    /\ assignCall.before.priority = assignCall.priority
    /\ assignCall.before.content # NULL
    /\ assignCall.content \notin {NULL, "", assignCall.before.content}
    /\ target.content = assignCall.content

\* the hints of a finished scpaping call with the white-space-only ones
\* taken as absent
HintsButBlank ==
    <<nonBlankSeen.meta, nonBlankSeen.httpEquiv,
      IF Blank(HeaderCharset) THEN NULL ELSE HeaderCharset>>

\* C13: an empty or white-space-only hint counts as absent: it blocks no
\* source of lower priority, and the charset is the one chosen had the hint
\* not been there (among hints that are recognized labels: the meta charset
\* attribute's, else the http-equiv's, else the header's, else detection
\* and utf-8).
C13_BlankHintCountsAsAbsent ==
    /\ Resolved
    /\ \A i \in 1..3 : Present(HintsButBlank[i]) => Recognized(HintsButBlank[i])
    => IF \E i \in 1..3 : Present(HintsButBlank[i])
       THEN LET first == CHOOSE i \in 1..3 :
                             /\ Present(HintsButBlank[i])
                             /\ \A j \in 1..(i - 1) : ~Present(HintsButBlank[j])
            IN  charset = toEncoding(HintsButBlank[first]) /\ detection = NotCalled
       ELSE DetectedOrDefault

\* the codecs toEncoding can name
Codecs == {toEncoding(label) : label \in RecognizedLabels}

\* C14: charset resolution is total: whatever the hints (absent, empty,
\* unrecognized, recognized) and whatever detection returns, a scpaping call
\* whose body ended has exactly one codec chosen, which is utf-8 when neither
\* a hint nor detection gives a recognized encoding; the end of the body can
\* always be processed, and a scpaping call fails only because getResponse
\* threw or the body stream errored, never because of a charset.
C14_ResolutionTotal ==
    /\ Resolved => charset \in Codecs
    /\ (/\ Resolved
        /\ \A i \in 1..3 : ~Recognized(Hints[i])
        /\ ~Recognized(detection))
       => charset = "utf-8" /\ detection # NotCalled
    /\ pc = "body" /\ args.kind = "scpaping" => ENABLED BodyEnds
    /\ pc = "failed" /\ args.kind = "scpaping" =>
           GetResponseThrew \/ bodyError \in {"SizeExceeded", "NetworkError"}

\* C14 witness: a finished call whose document hint and header hint are
\* both unrecognized and whose detection result is unrecognized too.
C14_Witness ==
    /\ Resolved
    /\ Present(metaCharsetSeen) /\ ~Recognized(metaCharsetSeen)
    /\ Present(HeaderCharset) /\ ~Recognized(HeaderCharset)
    /\ detection = "bogus"
    /\ charset = "utf-8"

\* C15: a response whose status is outside 200-299 makes getResponse throw a
\* StatusError that carries that response's status code and status text; no
\* body stream is returned and nothing of the body is read; this holds
\* whatever the type filter and the size checks would say of the response.
C15_NonOkStatusRejected ==
    Received /\ ~(res.status >= 200 /\ res.status <= 299) =>
        /\ outcome = "StatusError"
        /\ thrown = [statusCode |-> res.status, statusMessage |-> res.statusText]
        /\ pc = "failed"
        /\ ~rewriterStarted
        /\ transferred = 0 /\ delivered = 0

\* C15 witness: a 404 that the type filter and the declared-size check
\* would both reject was thrown as a StatusError with its text.
C15_Witness ==
    /\ Received
    /\ res.status = 404 /\ res.statusText = "Not Found"
    /\ TypeMismatch
    /\ DeclaredTooLarge
    /\ outcome = "StatusError"
    /\ thrown.statusCode = 404 /\ thrown.statusMessage = "Not Found"

\* the response came without a Content-Length header
NoContentLengthHeader == Received /\ res.contentLength.k = "absent"

\* C16 as stated: when the response has no Content-Length header,
\* getResponse fails with the content-length-required error if and only if
\* contentLengthRequired is set.
C16_RequiredIffFlag ==
    NoContentLengthHeader =>
        (outcome = "ContentLengthRequired" <=> args.contentLengthRequired)

\* C16: when a response with a 2xx status that passes the type filter has no
\* Content-Length header, getResponse fails with the content-length-required
\* error if and only if contentLengthRequired is set, and returns normally
\* when the flag is not set; the content-length-required error is thrown for
\* no other response.
C16_RequiredContentLength ==
    /\ NoContentLengthHeader /\ Ok(res.status) /\ ~TypeMismatch =>
           /\ outcome = "ContentLengthRequired" <=> args.contentLengthRequired
           /\ ~args.contentLengthRequired => outcome = "ok"
    /\ outcome = "ContentLengthRequired" =>
           /\ args.contentLengthRequired
           /\ ~ContentLengthTruthy(res.contentLength)
           /\ pc = "failed"

\* C16 witness: a 2xx response without the header failed a call that
\* required it.
C16_Witness ==
    /\ NoContentLengthHeader
    /\ Ok(res.status)
    /\ args.contentLengthRequired
    /\ outcome = "ContentLengthRequired"

\* the positions of the start tags of the elements open after the first k
\* tokens of the document
RECURSIVE OpenAfter(_)
OpenAfter(k) ==
    IF k = 0 THEN <<>>
    ELSE LET before == OpenAfter(k - 1)
             t == tokens[k]
         IN  IF t.kind = "start" /\ t.tag \notin VoidTags THEN Append(before, k)
             ELSE IF t.kind = "end" THEN SubSeq(before, 1, Len(before) - 1)
             ELSE before

\* the element whose start or end tag token i is, by its start tag's position
ElementOf(i) ==
    IF tokens[i].kind = "start" THEN i
    ELSE OpenAfter(i - 1)[Len(OpenAfter(i - 1))]

\* the elements token i belongs to, as one of their tags or as their content
Around(i) ==
    {OpenAfter(i - 1)[n] : n \in 1..Len(OpenAfter(i - 1))}
    \cup (IF tokens[i].kind = "start" THEN {i} ELSE {})

InRemovedSubtree(i) ==
    \E j \in Around(i) : tokens[j].tag \in {"script", "template", "style", "svg"}

Written(i) == \E n \in 1..Len(output) : output[n] = i

\* C17: every element whose tag is script, template, style or svg is left
\* out of the stripper's output with its whole subtree: its start tag, its
\* end tag and everything between them, whatever its id.
C17_SubtreeRemoved ==
    \A i \in 1..Len(tokens) : InRemovedSubtree(i) => ~Written(i)

\* C17 witness: an svg with the allow-listed id title, a text inside it and
\* its end tag were left out, and the text after it was written.
C17_Witness ==
    /\ Len(tokens) = 4
    /\ tokens[1] = StartTag("svg", "title", NULL)
    /\ tokens[2].kind = "text"
    /\ tokens[3].kind = "end"
    /\ tokens[4].kind = "text"
    /\ output = <<4>>

AllowListed(t) ==
    \/ t.tag \in {"title", "link", "meta"}
    \/ t.id \in {"title", "productDescription", "landingImage"}

\* C18: outside the removed subtrees, the start and end tag of an element
\* are written if and only if its tag is title, link or meta or its id is
\* title, productDescription or landingImage; text is always written; and
\* what is written comes in the order of the document.
C18_UnwrapUnlessAllowListed ==
    /\ \A i \in 1..Len(tokens) :
           ~InRemovedSubtree(i) =>
               IF tokens[i].kind = "text"
               THEN Written(i)
               ELSE Written(i) <=> AllowListed(tokens[ElementOf(i)])
    /\ \A n \in 1..(Len(output) - 1) : output[n] < output[n + 1]

\* C18 witness: a div with another id was unwrapped around a kept
\* div#landingImage and its text.
C18_Witness ==
    /\ Len(tokens) = 4
    /\ tokens[1] = StartTag("div", "other", NULL)
    /\ tokens[2] = StartTag("div", "landingImage", NULL)
    /\ tokens[3].kind = "text"
    /\ tokens[4].kind = "end"
    /\ output = <<2, 3, 4>>

\* all there is of call j
View(cs, j) ==
    [pc |-> cs.pc[j],
     timeoutHandle |-> cs.timeoutHandle[j],
     operationTimeoutHandle |-> cs.operationTimeoutHandle[j],
     aborted |-> cs.aborted[j],
     res |-> cs.res[j],
     outcome |-> cs.outcome[j],
     transferred |-> cs.transferred[j],
     bodyError |-> cs.bodyError[j],
     pickedCharset |-> cs.pickedCharset[j],
     charset |-> cs.charset[j]]

\* the steps of call i
StepsOf(i, cs) ==
    StartOf(i, cs) \cup ResponseTimeoutOf(i, cs) \cup OperationTimeoutOf(i, cs)
    \cup FetchSettlesOf(i, cs) \cup ChunkOf(i, cs) \cup BodyEndsOf(i, cs)

\* what a call can come to when the other call never starts
RECURSIVE AloneFrom(_, _)
AloneFrom(seen, frontier) ==
    IF frontier = {} THEN seen
    ELSE LET next == UNION {StepsOf(1, cs) : cs \in frontier} \ seen
         IN  AloneFrom(seen \cup next, next)
AloneViews == {View(cs, 1) : cs \in AloneFrom({NoCalls}, {NoCalls})}

\* C19: two concurrent calls are isolated: every step (a timer firing, an
\* abort, a chunk counted or over the limit, a charset hint, the end of a
\* body) changes the timers, the controller, the counter, the charset slot,
\* the outcome and the charset of one call only, and whatever the
\* interleaving each call is in a state, outcome and chosen charset included,
\* that it can reach when it runs alone.
C19_RetrievalsIsolated ==
    /\ [](\A j \in CallIds : View(calls, j) \in AloneViews)
    /\ [][\E i \in CallIds :
             \A j \in CallIds \ {i} : View(calls', j) = View(calls, j)]_vars

\* C19 witness: the first call was aborted by its timer and the second went
\* over its size limit after a charset hint, while each one's controller,
\* counter and slot show only its own events.
C19_Witness ==
    /\ calls.outcome[1] = "AbortError"
    /\ calls.aborted[1]
    /\ calls.transferred[1] = 0
    /\ calls.pickedCharset[1].content = NULL
    /\ calls.bodyError[2] = "SizeExceeded"
    /\ ~calls.aborted[2]
    /\ calls.transferred[2] = 2
    /\ calls.pickedCharset[2] = [priority |-> 3, content |-> "Shift_JIS"]

\* the defaults overridden by the properties of o
DefaultsOverriddenBy(o) ==
    [x \in {"lang", "followRedirects", "plugins"} \cup DOMAIN o |->
        IF x \in DOMAIN o THEN o[x]
        ELSE IF x = "lang" THEN NULL
        ELSE IF x = "followRedirects" THEN TRUE
        ELSE <<>>]

\* C20: options do not carry over between calls: the options in effect for
\* a call are the defaults (lang null, followRedirects true, no plugins)
\* overridden by the options passed to that call only, and a call leaves
\* summalyDefaultOptions as it was.
C20_OptionsDoNotCarryOver ==
    /\ nCalls > 0 => opts = DefaultsOverriddenBy(options)
    /\ summalyDefaultOptions = [lang |-> NULL, followRedirects |-> TRUE, plugins |-> <<>>]

\* the redirect-resolving request of the call was made and failed
HeadFailed == headOutcome \notin {NotRequested, "pending", "ok"}

\* C21: redirect resolution never fails a summary: when opts.followRedirects
\* holds and the head request fails (abort by a timer, non-2xx status, network
\* failure, or any other error of getResponse), summaly goes on with the
\* given URL as the actual URL and invokes a summarizer with it; a call whose
\* opts.followRedirects does not hold makes no head request at all and goes
\* straight to the summarizer.
C21_RedirectFailureFallsBack ==
    /\ HeadFailed =>
           /\ actualUrl = GivenUrl
           /\ summarizerUrl = GivenUrl
           /\ summalyPc \in {"summarize", "idle"}
    /\ summalyPc = "head" => opts.followRedirects /\ headOutcome = "pending"
    /\ nCalls > 0 /\ ~opts.followRedirects =>
           /\ headOutcome = NotRequested
           /\ summalyPc \in {"summarize", "idle"}
           /\ summarizerUrl = GivenUrl

\* C21 witness: the head request ended in a non-2xx status and the
\* summarizer was invoked with the given URL.
C21_Witness ==
    /\ headOutcome = "StatusError"
    /\ opts.followRedirects
    /\ actualUrl = GivenUrl
    /\ summarizerUrl = GivenUrl
    /\ summalyPc = "summarize"

====
